---- MODULE Spec2Model ----
(***************************************************************************)
(* A model of the agent message bus of the Agentic RAG chatbot: the        *)
(* envelope (core/mcp.py MCPMessage), the process-wide bus with its        *)
(* handler registry and audit queue (MCPMessageBus), the base agent        *)
(* contract (agents/base_agent.py) and the four agents built on it         *)
(* (IngestionAgent, RetrievalAgent, LLMResponseAgent, UIAgent), driven by  *)
(* the Streamlit application (ui/streamlit_app.py).                        *)
(*                                                                         *)
(* Every `await` of the source is a direct call: bus.send_message awaits   *)
(* the receiver's handler, which awaits its own send_message.  A session   *)
(* (one Streamlit script thread) therefore owns a call stack of handler    *)
(* frames; the bus, its registry and the agents are shared by all          *)
(* sessions of the process.                                                *)
(***************************************************************************)
EXTENDS Integers, Sequences, FiniteSets, TLC

(* ------------------------------- state --------------------------------- *)
VARIABLES
  api_key,         \* whether GOOGLE_API_KEY is set in the process environment
  handlers,        \* MCPMessageBus._handlers: name -> agent object (0: none)
  subscribers,     \* MCPMessageBus._subscribers: name -> agent objects, in order
  message_queue,   \* MCPMessageBus._message_queue: the envelopes put so far
  agents,          \* the agent objects constructed so far, by identity 1, 2, ...
  nextId,          \* the next uuid4
  ui_agent,        \* StreamlitApp.ui_agent of a session's current script run
  retrieval_agent, \* st.session_state.retrieval_agent (0: agents not initialized)
  stack,           \* per session: the handler invocations it is inside, outermost first
  pending,         \* per session: the envelope an agent handed to bus.send_message
  escaped,         \* per session: the exception that last left a handler (log)
  action,          \* per session: the entry point it called last
  returned         \* the trace ids upload_document and ask_question have returned

vars ==
  <<api_key, handlers, subscribers, message_queue, agents, nextId, ui_agent,
    retrieval_agent, stack, pending, escaped, action, returned>>

(* ---------------------------- bounds ----------------------------------- *)
\* uuid4 values minted in one behaviour (one per upload_document/ask_question)
MaxTrace == 2
\* attempts of the chat's polling loop that find nothing (50 in the code: the
\* later ones read what the first ones read unless a handler has run between)
max_attempts == 2
\* agent objects constructed in one behaviour
MaxAgents == 5
\* uuid4 values minted before the last envelope published from outside
MaxPublish == 1
\* envelopes handed to the stages one after the other
MaxFeed == 2
\* agent objects constructed in one behaviour of two sessions side by side
\* (four for each session's first script run, one more per later run)
MaxAgents2 == 8

(* ------------------------- program constants --------------------------- *)
\* n_results sent by LLMResponseAgent._process_user_query
TOP_K == 5
\* n_results of a RETRIEVAL_REQUEST that names none
DEFAULT_N_RESULTS == 5
\* character budget of a fallback snippet
SNIPPET_LEN == 200
\* passages quoted by the fallback answer
TOP_SNIPPETS == 3
\* rows per CSV chunk
CSV_GROUP == 10

(* ------------------------------ names ---------------------------------- *)
Sessions == {"s1", "s2"}

DOC_UPLOADED == "DOC_UPLOADED"
DOC_INGESTED == "DOC_INGESTED"
USER_QUERY == "USER_QUERY"
RETRIEVAL_REQUEST == "RETRIEVAL_REQUEST"
RETRIEVAL_RESULT == "RETRIEVAL_RESULT"
FINAL_RESPONSE == "FINAL_RESPONSE"
ERROR == "ERROR"

MessageType ==
  {DOC_UPLOADED, DOC_INGESTED, USER_QUERY, RETRIEVAL_REQUEST,
   RETRIEVAL_RESULT, FINAL_RESPONSE, ERROR}

UI == "UI"
IngestionAgent == "IngestionAgent"
RetrievalAgent == "RetrievalAgent"
LLMResponseAgent == "LLMResponseAgent"

\* the names agents register under
AgentNames == {UI, IngestionAgent, RetrievalAgent, LLMResponseAgent}
\* a name no agent ever registers under
Nobody == "Nobody"
Names == AgentNames \cup {Nobody}

\* trace ids: the uuid4 strings are 1, 2, ...; "" and None are the two falsy ones
EmptyTrace == 0
NoneTrace == -1
FalsyTrace == {EmptyTrace, NoneTrace}

\* no exception in flight
NoExc == "<none>"

(* --------------------------- small helpers ----------------------------- *)
Last(s) == s[Len(s)]
Front(s) == SubSeq(s, 1, Len(s) - 1)
Min(a, b) == IF a <= b THEN a ELSE b
Has(p, k) == k \in DOMAIN p
EmptyMap == [x \in {} |-> 0]
Put(f, k, v) == [x \in DOMAIN f \cup {k} |-> IF x = k THEN v ELSE f[x]]
SelectIdx(s, P(_)) == {i \in DOMAIN s : P(s[i])}

(* ---------------------------- the envelope ----------------------------- *)
\* MCPMessage: a record of the five dataclass fields
MCPMessage(sender, receiver, type, trace_id, payload) ==
  [sender |-> sender, receiver |-> receiver, type |-> type,
   trace_id |-> trace_id, payload |-> payload]

\* MCPMessage.to_dict: the same five entries (type by its enum value)
to_dict(m) ==
  [sender |-> m.sender, receiver |-> m.receiver, type |-> m.type,
   trace_id |-> m.trace_id, payload |-> m.payload]

\* a create_message that mints a trace id whether or not it is given one
create_message_minting(sender, receiver, msg_type, payload, trace_id, fresh) ==
  MCPMessage(sender, receiver, msg_type, fresh, payload)

\* MCPMessageBus.create_message: `trace_id or str(uuid.uuid4())`;
\* fresh is the uuid4 the call would mint
create_message(sender, receiver, msg_type, payload, trace_id, fresh) ==
  MCPMessage(sender, receiver, msg_type,
             IF trace_id \in FalsyTrace THEN fresh ELSE trace_id, payload)

\* whether create_message consumes a uuid4
Mints(trace_id) == trace_id \in FalsyTrace

(* ------------------------- documents and chunks ------------------------ *)
\* A text is known by an identity and its length in characters; a blank text
\* (only whitespace) has length 0, so `text.strip()` is truthy iff len > 0.
Text(id, len) == [id |-> id, len |-> len]
Blank == Text("blank", 0)
ShortText == Text("short", 120)
LongText == Text("long", 250)

\* File contents: the parts a parser extracts, in order (pages, slides,
\* groups of rows, paragraphs), and whether the bytes are corrupt.
\* b"" is the file with no part that is not corrupt.
FileData(corrupt, parts) == [corrupt |-> corrupt, parts |-> parts]
NoBytes == FileData(FALSE, <<>>)

\* A file name is the sequence of its '.'-separated parts; "" is <<>>.
\* file_name.lower().split('.')[-1]
Lower(w) == CASE w = "PDF" -> "pdf" [] w = "TXT" -> "txt" [] OTHER -> w
Extension(file_name) == Lower(Last(file_name))

\* an outcome of a call that may raise
Ok(v) == [ok |-> TRUE, value |-> v, error |-> NoExc]
Raise(e) == [ok |-> FALSE, value |-> <<>>, error |-> e]

\* the non-blank parts of a file, each with its 1-based position
RECURSIVE Numbered(_, _)
Numbered(parts, i) ==
  IF i > Len(parts) THEN <<>>
  ELSE (IF parts[i].len > 0 THEN << <<i, parts[i]>> >> ELSE <<>>)
       \o Numbered(parts, i + 1)

\* the non-blank parts of a file
RECURSIVE NonBlank(_)
NonBlank(parts) ==
  IF parts = <<>> THEN <<>>
  ELSE (IF Head(parts).len > 0 THEN <<Head(parts)>> ELSE <<>>)
       \o NonBlank(Tail(parts))

\* DocumentParser.parse_pdf: one chunk per page with text, numbered from 1
parse_pdf(fd) ==
  IF fd.corrupt THEN Raise("PDF parsing error")
  ELSE LET n == Numbered(fd.parts, 1)
       IN Ok([k \in DOMAIN n |->
               [text |-> n[k][2], page |-> n[k][1], type |-> "pdf"]])

\* DocumentParser.parse_pptx: one chunk per slide with text
parse_pptx(fd) ==
  IF fd.corrupt THEN Raise("PPTX parsing error")
  ELSE LET n == Numbered(fd.parts, 1)
       IN Ok([k \in DOMAIN n |->
               [text |-> n[k][2], slide |-> n[k][1], type |-> "pptx"]])

\* DocumentParser.parse_csv: a header chunk (row 0), then one chunk per
\* group of CSV_GROUP rows (each part of the file is one group)
parse_csv(fd) ==
  IF fd.corrupt THEN Raise("CSV parsing error")
  ELSE Ok(<< [text |-> Text("csv_headers", 20), row |-> 0, type |-> "csv"] >>
          \o [k \in DOMAIN fd.parts |->
               [text |-> fd.parts[k], row |-> CSV_GROUP * (k - 1) + 1,
                type |-> "csv"]])

\* DocumentParser.parse_docx: one chunk per non-empty paragraph, numbered by
\* its position among all paragraphs
parse_docx(fd) ==
  IF fd.corrupt THEN Raise("DOCX parsing error")
  ELSE LET n == Numbered(fd.parts, 1)
       IN Ok([k \in DOMAIN n |->
               [text |-> n[k][2], paragraph |-> n[k][1], type |-> "docx"]])

\* markdown.markdown(text): a paragraph comes back wrapped in <p>...</p>
HtmlId(id) == CASE id = "short" -> "p_short" [] id = "long" -> "p_long" [] OTHER -> id
Markdown(t) == IF t.len > 0 THEN Text(HtmlId(t.id), t.len + 7) ELSE t

\* DocumentParser.parse_text: the non-blank paragraphs, numbered from 1
\* after the blank ones are dropped; type is the extension without its dot
parse_text(fd, file_extension) ==
  IF fd.corrupt THEN Raise("Text parsing error")
  ELSE LET ps == NonBlank(fd.parts)
       IN Ok([k \in DOMAIN ps |->
               [text |-> IF file_extension = "md" THEN Markdown(ps[k]) ELSE ps[k],
                paragraph |-> k, type |-> file_extension]])

\* the keys of parser_map
ParserMap == {"pdf", "pptx", "csv", "docx", "txt", "md"}

\* chunk['source'] = file_name
WithSource(chunk, file_name) ==
  [k \in DOMAIN chunk \cup {"source"} |->
     IF k = "source" THEN file_name ELSE chunk[k]]

\* DocumentParser.parse_document
parse_document(fd, file_name) ==
  LET ext == Extension(file_name)
      r == CASE ext = "pdf" -> parse_pdf(fd)
             [] ext = "pptx" -> parse_pptx(fd)
             [] ext = "csv" -> parse_csv(fd)
             [] ext = "docx" -> parse_docx(fd)
             [] OTHER -> parse_text(fd, ext)
  IN IF ext \notin ParserMap THEN Raise("Unsupported file format")
     ELSE IF ~r.ok THEN r
     ELSE Ok([k \in DOMAIN r.value |-> WithSource(r.value[k], file_name)])


(* ----------------------------- the index ------------------------------- *)
\* What the environment decides for one handler invocation: whether the
\* vector index or the embedding model raises, and whether Gemini answers
\* or raises.
Oracles == [index : {"ok", "fail"}, llm : {"ok", "fail"}]

\* the index's ranking of its documents for a query: nearest first (the
\* distances are not modelled; the ranking is the order of insertion)
Rank(docs, o) == docs

\* a search hit: {'text': doc, 'score': distance, **metadata}
Hit(doc, i) ==
  [k \in DOMAIN doc \cup {"score"} |-> IF k = "score" THEN i ELSE doc[k]]

\* a search that asks the collection for n_results whatever it holds
search_unclamped(docs, n_results, o) ==
  IF o.index = "fail" THEN Raise("index error")
  ELSE IF Len(docs) = 0 THEN Ok(<<>>)
  ELSE IF n_results < 1 THEN Raise("n_results must be positive")
  ELSE IF n_results > Len(docs) THEN Raise("n_results exceeds the collection")
  ELSE LET r == Rank(docs, o)
       IN Ok([i \in 1..n_results |-> Hit(r[i], i)])

\* VectorStore.search: [] on an empty collection, else the
\* min(n_results, count) nearest documents; chromadb refuses n_results < 1
search(docs, n_results, o) ==
  IF o.index = "fail" THEN Raise("index error")
  ELSE IF Len(docs) = 0 THEN Ok(<<>>)
  ELSE IF Min(n_results, Len(docs)) < 1 THEN Raise("n_results must be positive")
  ELSE LET r == Rank(docs, o)
       IN Ok([i \in 1..Min(n_results, Len(docs)) |-> Hit(r[i], i)])

\* VectorStore.add_documents: nothing for no chunks; chunk['text'] of every
\* chunk, then collection.add
add_documents(docs, chunks, o) ==
  IF Len(chunks) = 0 THEN Ok(docs)
  ELSE IF \E i \in DOMAIN chunks : ~Has(chunks[i], "text") THEN Raise("KeyError: text")
  ELSE IF o.index = "fail" THEN Raise("index error")
  ELSE Ok(docs \o chunks)

\* VectorStore.get_collection_stats: collection.count() and the model's width
get_collection_stats(docs, o) ==
  IF o.index = "fail" THEN Raise("index error") ELSE Ok(Len(docs))

(* ----------------------- what a handler body does ---------------------- *)
\* The outcome of the try block of a handler up to its first await:
\* it returns, it awaits send_message(receiver, type, payload), or it raises.
\* docs is the agent's index afterwards.
Returns(docs) ==
  [kind |-> "return", receiver |-> Nobody, type |-> ERROR,
   payload |-> EmptyMap, error |-> NoExc, docs |-> docs]
Sends(receiver, type, payload, docs) ==
  [kind |-> "send", receiver |-> receiver, type |-> type,
   payload |-> payload, error |-> NoExc, docs |-> docs]
Throws(e, docs) ==
  [kind |-> "raise", receiver |-> Nobody, type |-> ERROR,
   payload |-> EmptyMap, error |-> e, docs |-> docs]

\* payload.get(k) is truthy
NoneQuery == "<None>"
QueryOf(p) == IF Has(p, "query") THEN p.query ELSE NoneQuery
TruthyQuery(p) == Has(p, "query") /\ p.query # "" /\ p.query # NoneQuery
TruthyName(p) == Has(p, "file_name") /\ p.file_name # <<>>
TruthyData(p) == Has(p, "file_data") /\ p.file_data # NoBytes

\* a _process_document that counts the parts of the file, not the chunks
Ingestion_process_document_parts(m) ==
  LET p == m.payload
      r == parse_document(p.file_data, p.file_name)
  IN IF ~TruthyName(p) \/ ~TruthyData(p)
       THEN Throws("Missing file_name or file_data in payload", <<>>)
     ELSE IF ~r.ok THEN Throws(r.error, <<>>)
     ELSE Sends(RetrievalAgent, DOC_INGESTED,
                [chunks |-> r.value, file_name |-> p.file_name,
                 total_chunks |-> Len(p.file_data.parts)], <<>>)

\* IngestionAgent._process_document
Ingestion_process_document(m) ==
  LET p == m.payload
      r == parse_document(p.file_data, p.file_name)
  IN IF ~TruthyName(p) \/ ~TruthyData(p)
       THEN Throws("Missing file_name or file_data in payload", <<>>)
     ELSE IF ~r.ok THEN Throws(r.error, <<>>)
     ELSE Sends(RetrievalAgent, DOC_INGESTED,
                [chunks |-> r.value, file_name |-> p.file_name,
                 total_chunks |-> Len(r.value)], <<>>)

\* the try block of IngestionAgent.handle_message
Ingestion_body(m) ==
  IF m.type = DOC_UPLOADED THEN Ingestion_process_document(m)
  ELSE Returns(<<>>)

\* an _ingest_chunks that tells the UI how many chunks it has indexed
Retrieval_ingest_chunks_acking(m, docs, o) ==
  LET p == m.payload
      chunks == IF Has(p, "chunks") THEN p.chunks ELSE <<>>
      added == add_documents(docs, chunks, o)
  IN IF ~added.ok THEN Throws(added.error, docs)
     ELSE Sends(UI, FINAL_RESPONSE, [answer |-> Len(chunks)], added.value)

\* RetrievalAgent._ingest_chunks
Retrieval_ingest_chunks(m, docs, o) ==
  LET p == m.payload
      chunks == IF Has(p, "chunks") THEN p.chunks ELSE <<>>
      added == add_documents(docs, chunks, o)
      stats == get_collection_stats(added.value, o)
  IN IF ~added.ok THEN Throws(added.error, docs)
     ELSE IF ~stats.ok THEN Throws(stats.error, added.value)
     ELSE Returns(added.value)

\* the locator of a hit, by its document type
NoneValue == -1
Field(r, k) == IF Has(r, k) THEN r[k] ELSE NoneValue
LocatorKey(hit) ==
  LET t == IF Has(hit, "type") THEN hit.type ELSE "<None>"
  IN CASE t = "pdf" -> {"page"}
       [] t = "pptx" -> {"slide"}
       [] t = "csv" -> {"row"}
       [] t \in {"docx", "txt", "md"} -> {"paragraph"}
       [] OTHER -> {}

\* context_item of RetrievalAgent._perform_retrieval
ContextItem(hit) ==
  [k \in {"text", "source", "score"} \cup LocatorKey(hit) |->
     CASE k = "text" -> hit.text
       [] k = "source" -> (IF Has(hit, "source") THEN hit.source ELSE <<"unknown">>)
       [] k = "score" -> (IF Has(hit, "score") THEN hit.score ELSE 0)
       [] OTHER -> Field(hit, k)]

\* a _perform_retrieval that searches before it looks at the query
Retrieval_perform_retrieval_eager(m, docs, o) ==
  LET p == m.payload
      n_results == IF Has(p, "n_results") THEN p.n_results ELSE DEFAULT_N_RESULTS
      results == search(docs, n_results, o)
  IN IF ~results.ok THEN Throws(results.error, docs)
     ELSE IF ~TruthyQuery(p) THEN Throws("Missing query in retrieval request", docs)
     ELSE Sends(LLMResponseAgent, RETRIEVAL_RESULT,
                [retrieved_context |->
                   [i \in DOMAIN results.value |-> ContextItem(results.value[i])],
                 query |-> p.query,
                 total_results |-> Len(results.value)], docs)

\* RetrievalAgent._perform_retrieval
Retrieval_perform_retrieval(m, docs, o) ==
  LET p == m.payload
      n_results == IF Has(p, "n_results") THEN p.n_results ELSE DEFAULT_N_RESULTS
      results == search(docs, n_results, o)
  IN IF ~TruthyQuery(p) THEN Throws("Missing query in retrieval request", docs)
     ELSE IF ~results.ok THEN Throws(results.error, docs)
     ELSE Sends(LLMResponseAgent, RETRIEVAL_RESULT,
                [retrieved_context |->
                   [i \in DOMAIN results.value |-> ContextItem(results.value[i])],
                 query |-> p.query,
                 total_results |-> Len(results.value)], docs)

\* a RetrievalAgent.handle_message whose else branch raises
Retrieval_body_strict(m, docs, o) ==
  IF m.type = DOC_INGESTED THEN Retrieval_ingest_chunks(m, docs, o)
  ELSE IF m.type = RETRIEVAL_REQUEST THEN Retrieval_perform_retrieval(m, docs, o)
  ELSE Throws("Unhandled message type", docs)

\* the try block of RetrievalAgent.handle_message
Retrieval_body(m, docs, o) ==
  IF m.type = DOC_INGESTED THEN Retrieval_ingest_chunks(m, docs, o)
  ELSE IF m.type = RETRIEVAL_REQUEST THEN Retrieval_perform_retrieval(m, docs, o)
  ELSE Returns(docs)


(* ------------------------------ generation ----------------------------- *)
\* a snippet that is cut as soon as the text fills the budget
Snippet_inclusive(item) ==
  [source |-> IF Has(item, "source") THEN item.source ELSE <<"unknown">>,
   id |-> item.text.id,
   len |-> IF item.text.len >= SNIPPET_LEN THEN SNIPPET_LEN ELSE item.text.len,
   ellipsis |-> item.text.len >= SNIPPET_LEN]

\* item['text'][:200] + "..." if len(item['text']) > 200 else item['text']
Snippet(item) ==
  [source |-> IF Has(item, "source") THEN item.source ELSE <<"unknown">>,
   id |-> item.text.id,
   len |-> IF item.text.len > SNIPPET_LEN THEN SNIPPET_LEN ELSE item.text.len,
   ellipsis |-> item.text.len > SNIPPET_LEN]

\* the three shapes of an answer: the fixed "couldn't find relevant
\* information" sentence, the quoted passages, Gemini's text
NoInfoAnswer == [kind |-> "no_info", snippets |-> <<>>]
PassagesAnswer(snippets) == [kind |-> "passages", snippets |-> snippets]
GeminiAnswer == [kind |-> "gemini", snippets |-> <<>>]

\* a _generate_fallback_response that numbers its answers: the text depends
\* on how many envelopes the bus has seen
generate_fallback_response_numbered(query, context) ==
  IF Len(context) = 0
    THEN Ok([kind |-> "no_info", snippets |-> <<>>, number |-> Len(message_queue)])
  ELSE LET top == SubSeq(context, 1, Min(TOP_SNIPPETS, Len(context)))
       IN IF \E i \in DOMAIN top : ~Has(top[i], "text") THEN Raise("KeyError: text")
          ELSE Ok([kind |-> "passages",
                   snippets |-> [i \in DOMAIN top |-> Snippet(top[i])],
                   number |-> Len(message_queue)])

\* a _generate_fallback_response without the test for an empty context
generate_fallback_response_quoting(query, context) ==
  LET top == SubSeq(context, 1, Min(TOP_SNIPPETS, Len(context)))
  IN IF \E i \in DOMAIN top : ~Has(top[i], "text") THEN Raise("KeyError: text")
     ELSE Ok(PassagesAnswer([i \in DOMAIN top |-> Snippet(top[i])]))

\* LLMResponseAgent._generate_fallback_response
generate_fallback_response(query, context) ==
  IF Len(context) = 0 THEN Ok(NoInfoAnswer)
  ELSE LET top == SubSeq(context, 1, Min(TOP_SNIPPETS, Len(context)))
       IN IF \E i \in DOMAIN top : ~Has(top[i], "text") THEN Raise("KeyError: text")
          ELSE Ok(PassagesAnswer([i \in DOMAIN top |-> Snippet(top[i])]))

\* LLMResponseAgent._generate_llm_response: the prompt reads item['text'] of
\* every item; a failure of generate_content falls back
generate_llm_response(query, context, o) ==
  IF \E i \in DOMAIN context : ~Has(context[i], "text") THEN Raise("KeyError: text")
  ELSE IF o.llm = "ok" THEN Ok(GeminiAnswer)
  ELSE generate_fallback_response(query, context)

\* the first locator key a context item has, in the order the code asks
SourceKey(item) ==
  IF Has(item, "page") THEN {"page"}
  ELSE IF Has(item, "slide") THEN {"slide"}
  ELSE IF Has(item, "row") THEN {"row"}
  ELSE IF Has(item, "paragraph") THEN {"paragraph"}
  ELSE {}

\* source_entry of LLMResponseAgent._generate_response
SourceEntry(item) ==
  [k \in {"document"} \cup SourceKey(item) |->
     IF k = "document"
       THEN (IF Has(item, "source") THEN item.source ELSE <<"unknown">>)
       ELSE item[k]]

\* a _process_user_query that asks Retrieval for three results
LLM_process_user_query_top3(m) ==
  IF ~TruthyQuery(m.payload) THEN Throws("Missing query in user message", <<>>)
  ELSE Sends(RetrievalAgent, RETRIEVAL_REQUEST,
             [query |-> m.payload.query, n_results |-> 3], <<>>)

\* a _process_user_query that gives up on a missing query without a word
LLM_process_user_query_silent(m) ==
  IF ~TruthyQuery(m.payload) THEN Returns(<<>>)
  ELSE Sends(RetrievalAgent, RETRIEVAL_REQUEST,
             [query |-> m.payload.query, n_results |-> TOP_K], <<>>)

\* LLMResponseAgent._process_user_query
LLM_process_user_query(m) ==
  IF ~TruthyQuery(m.payload) THEN Throws("Missing query in user message", <<>>)
  ELSE Sends(RetrievalAgent, RETRIEVAL_REQUEST,
             [query |-> m.payload.query, n_results |-> TOP_K], <<>>)

\* LLMResponseAgent._generate_response
LLM_generate_response(m, llm_available, o) ==
  LET p == m.payload
      query == QueryOf(p)
      context == IF Has(p, "retrieved_context") THEN p.retrieved_context ELSE <<>>
      response == IF llm_available THEN generate_llm_response(query, context, o)
                  ELSE generate_fallback_response(query, context)
  IN IF ~response.ok THEN Throws(response.error, <<>>)
     ELSE Sends(UI, FINAL_RESPONSE,
                [answer |-> response.value,
                 source_info |-> [i \in DOMAIN context |-> SourceEntry(context[i])],
                 query |-> query], <<>>)

\* a handle_message that sends a failed RETRIEVAL_REQUEST again
LLM_body_retrying(m, llm_available, o) ==
  IF m.type = USER_QUERY THEN LLM_process_user_query(m)
  ELSE IF m.type = RETRIEVAL_RESULT THEN LLM_generate_response(m, llm_available, o)
  ELSE IF /\ m.type = ERROR
          /\ Has(m.payload, "original_message")
          /\ m.payload.original_message.type = RETRIEVAL_REQUEST
    THEN Sends(RetrievalAgent, RETRIEVAL_REQUEST,
               m.payload.original_message.payload, <<>>)
  ELSE Returns(<<>>)

\* the try block of LLMResponseAgent.handle_message
LLM_body(m, llm_available, o) ==
  IF m.type = USER_QUERY THEN LLM_process_user_query(m)
  ELSE IF m.type = RETRIEVAL_RESULT THEN LLM_generate_response(m, llm_available, o)
  ELSE Returns(<<>>)

(* ------------------------------- agents -------------------------------- *)
\* An agent object: its class, the name it registered under, and the state
\* its class keeps (UIAgent: responses and errors by trace id; RetrievalAgent:
\* the documents of its index; LLMResponseAgent: llm_available).
Agent(cls, responses, errors, docs, llm_available) ==
  [cls |-> cls, responses |-> responses, errors |-> errors,
   docs |-> docs, llm_available |-> llm_available]
NewUIAgent == Agent(UI, EmptyMap, EmptyMap, <<>>, FALSE)
NewIngestionAgent == Agent(IngestionAgent, EmptyMap, EmptyMap, <<>>, FALSE)
NewRetrievalAgent == Agent(RetrievalAgent, EmptyMap, EmptyMap, <<>>, FALSE)
NewLLMResponseAgent(key) == Agent(LLMResponseAgent, EmptyMap, EmptyMap, <<>>, key)

\* a RetrievalAgent.handle_message without its try/except
Catches_notRetrieval(cls) == cls \in {IngestionAgent, LLMResponseAgent}

\* whether handle_message of the class wraps its body in try/except Exception
Catches(cls) == cls \in {IngestionAgent, RetrievalAgent, LLMResponseAgent}

\* an _send_error_message that passes the error on to the next stage
ErrorReceiver_downstream(cls, m) ==
  IF cls = LLMResponseAgent THEN UI
  ELSE IF cls = IngestionAgent THEN RetrievalAgent
  ELSE m.sender

\* an _send_error_message that answers the sender in every stage
ErrorReceiver_sender(cls, m) == m.sender

\* the receiver of _send_error_message: the sender of the failed envelope for
\* IngestionAgent and RetrievalAgent, "UI" for LLMResponseAgent
ErrorReceiver(cls, m) == IF cls = LLMResponseAgent THEN UI ELSE m.sender

\* the payload of _send_error_message
ErrorPayload(m, error) == [error |-> error, original_message |-> to_dict(m)]

\* the try block of handle_message of an agent, up to its first await
Body(a, m, o) ==
  CASE a.cls = IngestionAgent -> Ingestion_body(m)
    [] a.cls = RetrievalAgent -> Retrieval_body(m, a.docs, o)
    [] a.cls = LLMResponseAgent -> LLM_body(m, a.llm_available, o)
    [] OTHER -> Returns(a.docs)


(* ---------------------------- initial state ---------------------------- *)
NoMessage == MCPMessage(Nobody, Nobody, ERROR, NoneTrace, EmptyMap)
Idle ==
  [op |-> "none", trace_id |-> NoneTrace, ui |-> 0, status |-> "idle",
   first |-> NoMessage, error |-> NoExc,
   attempts |-> 0, response |-> <<>>, polled_error |-> <<>>, bound |-> 0]

Init ==
  /\ api_key \in BOOLEAN
  /\ handlers = [n \in Names |-> 0]
  /\ subscribers = [n \in Names |-> <<>>]
  /\ message_queue = <<>>
  /\ agents = <<>>
  /\ nextId = 1
  /\ ui_agent = [s \in Sessions |-> 0]
  /\ retrieval_agent = [s \in Sessions |-> 0]
  /\ stack = [s \in Sessions |-> <<>>]
  /\ pending = [s \in Sessions |-> <<>>]
  /\ escaped = [s \in Sessions |-> NoExc]
  /\ action = [s \in Sessions |-> Idle]
  /\ returned = {}

\* a UIAgent.handle_message that files the payload under the trace id minted
\* last
UI_handle_message_latest(a, m) ==
  IF m.type = FINAL_RESPONSE
    THEN [a EXCEPT !.responses = Put(a.responses, nextId - 1, m.payload)]
  ELSE IF m.type = ERROR
    THEN [a EXCEPT !.errors = Put(a.errors, nextId - 1, m.payload)]
  ELSE a

\* UIAgent.handle_message: the agent afterwards
UI_handle_message(a, m) ==
  IF m.type = FINAL_RESPONSE
    THEN [a EXCEPT !.responses = Put(a.responses, m.trace_id, m.payload)]
  ELSE IF m.type = ERROR
    THEN [a EXCEPT !.errors = Put(a.errors, m.trace_id, m.payload)]
  ELSE a

(* ------------------------------- the bus ------------------------------- *)
\* dict.get(key): the value in a list of one, or None (the empty list)
DictGet(f, k) == IF k \in DOMAIN f THEN <<f[k]>> ELSE <<>>

\* a get_response that takes the entry out of the store (dict.pop)
get_response_popping(a, trace_id) ==
  [agent |-> [a EXCEPT !.responses = [x \in DOMAIN @ \ {trace_id} |-> @[x]]],
   value |-> DictGet(a.responses, trace_id)]

\* UIAgent.get_response(trace_id): the agent afterwards and the value returned
get_response(a, trace_id) ==
  [agent |-> a, value |-> DictGet(a.responses, trace_id)]

\* UIAgent.get_error(trace_id): the agent afterwards and the value returned
get_error(a, trace_id) ==
  [agent |-> a, value |-> DictGet(a.errors, trace_id)]

\* the truth value of what dict.get returned: None and {} are falsy
TruthyValue(v) == v # <<>> /\ DOMAIN v[1] # {}

\* a subscribe that keeps the handler a name is already bound to
subscribe_handlers_first(hs, agent_name, handler) ==
  IF hs[agent_name] = 0 THEN [hs EXCEPT ![agent_name] = handler] ELSE hs

\* MCPMessageBus.subscribe(agent_name, handler): _handlers afterwards
subscribe_handlers(hs, agent_name, handler) ==
  [hs EXCEPT ![agent_name] = handler]

\* MCPMessageBus.subscribe(agent_name, handler): _subscribers afterwards
subscribe_subscribers(subs, agent_name, handler) ==
  [subs EXCEPT ![agent_name] = Append(@, handler)]

\* a send_message that records only the envelopes it can deliver
queue_put_delivered(queue, m) ==
  IF handlers[m.receiver] = 0 THEN queue ELSE Append(queue, m)

\* await self._message_queue.put(message) on the unbounded asyncio.Queue:
\* the queue afterwards
queue_put(queue, m) == Append(queue, m)

\* MCPMessageBus.send_message, after the put: the handler it calls (0: the
\* receiver is in no _handlers entry and the call just returns)
Resolve(hs, m) == hs[m.receiver]

\* a send_message that looks the receiver up without the membership test
SendFault_lookup(hs, m) == hs[m.receiver] = 0

\* whether MCPMessageBus.send_message raises for the envelope: it looks the
\* receiver up only `if message.receiver in self._handlers`
SendFault(hs, m) == FALSE

\* a send_message that schedules the handler instead of awaiting it
AwaitsHandler_detached == FALSE

\* whether MCPMessageBus.send_message awaits the handler it calls
AwaitsHandler == TRUE

\* BaseAgent.send_message: the envelope it creates
BaseAgent_send_message(name, receiver, msg_type, payload, trace_id, fresh) ==
  create_message(name, receiver, msg_type, payload, trace_id, fresh)

\* BaseAgent.__init__ of agent objects n+1, n+2, ... constructed in this
\* order, each subscribing under its name: _handlers afterwards
RECURSIVE RegisterHandlers(_, _, _)
RegisterHandlers(hs, names, n) ==
  IF names = <<>> THEN hs
  ELSE RegisterHandlers(subscribe_handlers(hs, Head(names), n + 1), Tail(names), n + 1)

\* the same, _subscribers afterwards
RECURSIVE RegisterSubscribers(_, _, _)
RegisterSubscribers(subs, names, n) ==
  IF names = <<>> THEN subs
  ELSE RegisterSubscribers(subscribe_subscribers(subs, Head(names), n + 1),
                           Tail(names), n + 1)

Frame(m, agent) == [msg |-> m, agent |-> agent, phase |-> "start"]
Top(s) == Last(stack[s])
Busy(s) == action[s].status = "running"

(* --------------------------- the application --------------------------- *)
\* the agent objects of a script run: StreamlitApp() constructs a UIAgent;
\* run() calls initialize_agents(), which in a new session constructs the
\* three other agents
Constructed(first) ==
  IF first
    THEN <<NewUIAgent, NewIngestionAgent, NewRetrievalAgent,
           NewLLMResponseAgent(api_key)>>
    ELSE <<NewUIAgent>>

\* the sessions are named in the order of their first script run
Before(t, s) == t = "s1" /\ s = "s2"

\* One script run up to the rendering, while the process holds at most
\* `limit` agent objects
Run(s, limit) ==
  /\ ~Busy(s)
  /\ retrieval_agent[s] = 0 => \A t \in Sessions : Before(t, s) => retrieval_agent[t] # 0
  /\ LET first == retrieval_agent[s] = 0
         n == Len(agents)
         new == Constructed(first)
         names == [i \in DOMAIN new |-> new[i].cls]
     IN /\ n + Len(new) <= limit
        /\ agents' = agents \o new
        /\ handlers' = RegisterHandlers(handlers, names, n)
        /\ subscribers' = RegisterSubscribers(subscribers, names, n)
        /\ ui_agent' = [ui_agent EXCEPT ![s] = n + 1]
        /\ retrieval_agent' = [retrieval_agent EXCEPT ![s] = IF first THEN n + 3 ELSE @]
  /\ UNCHANGED <<api_key, message_queue, nextId, stack, pending, escaped, action, returned>>

Rerun(s) == Run(s, MaxAgents)

\* the files and questions a user gives
Uploads ==
  { [file_name |-> <<"report", "pdf">>, file_data |-> FileData(FALSE, <<ShortText, LongText>>)],
    [file_name |-> <<"report", "pdf">>, file_data |-> FileData(TRUE, <<ShortText>>)],
    [file_name |-> <<"data", "xyz">>, file_data |-> FileData(FALSE, <<ShortText>>)],
    [file_name |-> <<"notes", "txt">>, file_data |-> NoBytes] }
Queries == {"", "what is X?"}

\* an entry point: it hands its first envelope m to the bus; tid is the value
\* of its local trace_id, which it returns when the await is over (ui is the
\* UIAgent that makes the call, bound the handler "UI" names at that moment)
Begin(s, op, tid, m) ==
  /\ ~Busy(s)
  /\ pending' = [pending EXCEPT ![s] = <<m>>]
  /\ nextId' = nextId + 1
  /\ escaped' = [escaped EXCEPT ![s] = NoExc]
  /\ action' = [action EXCEPT ![s] =
       [op |-> op, trace_id |-> tid, ui |-> ui_agent[s],
        status |-> "running", first |-> m, error |-> NoExc,
        attempts |-> 0, response |-> <<>>, polled_error |-> <<>>,
        bound |-> handlers[UI]]]
  /\ UNCHANGED <<api_key, handlers, subscribers, message_queue, agents, ui_agent,
                 retrieval_agent, stack, returned>>

\* a trace id computed once, when the module is loaded
uuid4_once(next) == 1

\* str(uuid.uuid4()): a value no earlier call returned (next is the number
\* of calls so far, plus one)
uuid4(next) == next

\* UIAgent.upload_document, up to its await
Upload(s) ==
  /\ ui_agent[s] # 0
  /\ nextId <= MaxTrace
  /\ \E u \in Uploads :
       Begin(s, "upload", uuid4(nextId),
             BaseAgent_send_message(UI, IngestionAgent, DOC_UPLOADED, u,
                                    uuid4(nextId), uuid4(nextId)))

\* an ask_question that leaves the trace id of its envelope to create_message
Ask_untraced(s) ==
  /\ ui_agent[s] # 0
  /\ nextId <= MaxTrace
  /\ \E q \in Queries :
       Begin(s, "ask", uuid4(nextId),
             BaseAgent_send_message(UI, LLMResponseAgent, USER_QUERY,
                                    [query |-> q], EmptyTrace, uuid4(nextId + 1)))

\* UIAgent.ask_question, up to its await
Ask(s) ==
  /\ ui_agent[s] # 0
  /\ nextId <= MaxTrace
  /\ \E q \in Queries :
       Begin(s, "ask", uuid4(nextId),
             BaseAgent_send_message(UI, LLMResponseAgent, USER_QUERY,
                                    [query |-> q], uuid4(nextId), uuid4(nextId)))

\* "Clear All Documents": RetrievalAgent.clear_store of the session's agent
ClearStore(s) ==
  /\ ~Busy(s)
  /\ retrieval_agent[s] # 0
  /\ agents[retrieval_agent[s]].docs # <<>>
  /\ agents' = [agents EXCEPT ![retrieval_agent[s]].docs = <<>>]
  /\ UNCHANGED <<api_key, handlers, subscribers, message_queue, nextId, ui_agent,
                 retrieval_agent, stack, pending, escaped, action, returned>>

(* ------------------------------ dispatch ------------------------------- *)
\* A call has returned (e = NoExc) or raised e into the frames of stk that
\* await it: a frame awaiting in its try block catches an exception if its
\* class has the except block, every other frame is left.  The frames that
\* remain, and whether the top one has caught e.
RECURSIVE Unwind(_, _)
Unwind(stk, e) ==
  IF stk = <<>> THEN [stack |-> <<>>, caught |-> FALSE]
  ELSE IF Last(stk).phase = "try" /\ e # NoExc /\ Catches(agents[Last(stk).agent].cls)
    THEN [stack |-> stk, caught |-> TRUE]
  ELSE Unwind(Front(stk), e)

\* the envelope of the except block of handle_message:
\* _send_error_message(message, str(e))
ErrorMessage(cls, m, e, fresh) ==
  BaseAgent_send_message(cls, ErrorReceiver(cls, m), ERROR, ErrorPayload(m, e),
                         m.trace_id, fresh)

\* the entry point's await is over: it returns its trace id, or e leaves it
Finish(s, e) ==
  IF Busy(s)
    THEN /\ action' = [action EXCEPT
               ![s].status = IF e = NoExc THEN "returned" ELSE "raised",
               ![s].error = e]
         /\ returned' =
              IF e = NoExc /\ action[s].op \in {"upload", "ask"}
                THEN returned \cup {action[s].trace_id} ELSE returned
    ELSE UNCHANGED <<action, returned>>

\* The session goes on after a call returned or raised e with the frames stk
\* awaiting it: the catching frame sends its ERROR envelope, or every frame
\* is left and the entry point returns its trace id or raises.
Continue(s, stk, e) ==
  LET u == Unwind(stk, e)
  IN /\ escaped' = [escaped EXCEPT ![s] = IF e # NoExc THEN e ELSE @]
     /\ IF u.caught
          THEN LET f == Last(u.stack)
               IN /\ stack' = [stack EXCEPT ![s] =
                       [u.stack EXCEPT ![Len(u.stack)].phase = "except"]]
                  /\ pending' = [pending EXCEPT ![s] =
                       <<ErrorMessage(agents[f.agent].cls, f.msg, e, nextId)>>]
                  /\ nextId' = IF Mints(f.msg.trace_id) THEN nextId + 1 ELSE nextId
                  /\ UNCHANGED <<action, returned>>
          ELSE /\ stack' = [stack EXCEPT ![s] = <<>>]
               /\ pending' = [pending EXCEPT ![s] = <<>>]
               /\ UNCHANGED nextId
               /\ Finish(s, e)

\* MCPMessageBus.send_message(message): the put, then the handler is called
Deliver(s) ==
  /\ pending[s] # <<>>
  /\ LET m == pending[s][1]
         h == Resolve(handlers, m)
     IN /\ message_queue' = queue_put(message_queue, m)
        /\ IF SendFault(handlers, m)
             THEN Continue(s, stack[s], "UnknownReceiver")
           ELSE IF h = 0
             THEN Continue(s, stack[s], NoExc)
           ELSE IF AwaitsHandler
             THEN /\ stack' = [stack EXCEPT ![s] = Append(@, Frame(m, h))]
                  /\ pending' = [pending EXCEPT ![s] = <<>>]
                  /\ UNCHANGED <<nextId, escaped, action, returned>>
           ELSE /\ stack' = [stack EXCEPT ![s] = <<Frame(m, h)>>]
                /\ pending' = [pending EXCEPT ![s] = <<>>]
                /\ Finish(s, NoExc)
                /\ UNCHANGED <<nextId, escaped>>
  /\ UNCHANGED <<api_key, handlers, subscribers, agents, ui_agent, retrieval_agent>>

\* handle_message(message) of the receiver, up to its first await or to its
\* return
Handle(s) ==
  /\ stack[s] # <<>>
  /\ Top(s).phase = "start"
  /\ LET f == Top(s)
         m == f.msg
         a == agents[f.agent]
     IN IF a.cls = UI
          THEN /\ agents' = [agents EXCEPT ![f.agent] = UI_handle_message(a, m)]
               /\ Continue(s, Front(stack[s]), NoExc)
          ELSE \E o \in Oracles :
                 LET out == Body(a, m, o)
                 IN /\ agents' = [agents EXCEPT ![f.agent].docs = out.docs]
                    /\ CASE out.kind = "return" ->
                              Continue(s, Front(stack[s]), NoExc)
                         [] out.kind = "send" ->
                              /\ pending' = [pending EXCEPT ![s] =
                                   <<BaseAgent_send_message(a.cls, out.receiver, out.type,
                                       out.payload, m.trace_id, nextId)>>]
                              /\ nextId' = IF Mints(m.trace_id) THEN nextId + 1 ELSE nextId
                              /\ stack' = [stack EXCEPT ![s][Len(stack[s])].phase = "try"]
                              /\ UNCHANGED <<escaped, action, returned>>
                         [] OTHER ->
                              IF Catches(a.cls)
                                THEN /\ pending' = [pending EXCEPT ![s] =
                                          <<ErrorMessage(a.cls, m, out.error, nextId)>>]
                                     /\ nextId' = IF Mints(m.trace_id) THEN nextId + 1
                                                  ELSE nextId
                                     /\ stack' = [stack EXCEPT
                                          ![s][Len(stack[s])].phase = "except"]
                                     /\ UNCHANGED <<escaped, action, returned>>
                                ELSE Continue(s, Front(stack[s]), out.error)
  /\ UNCHANGED <<api_key, handlers, subscribers, message_queue, ui_agent, retrieval_agent>>

Next ==
  \/ \E s \in Sessions : Rerun(s)
  \/ \E s \in Sessions : Upload(s)
  \/ \E s \in Sessions : Ask(s)
  \/ \E s \in Sessions : ClearStore(s)
  \/ \E s \in Sessions : Deliver(s)
  \/ \E s \in Sessions : Handle(s)

\* the application: script runs of the sessions of one process
Spec == Init /\ [][Next]_vars

\* One attempt of the chat's polling loop after ask_question has returned:
\* get_response and get_error of the script run's UIAgent, then the break, or
\* the sleep and one more attempt counted
Poll(s) ==
  /\ action[s].op = "ask"
  /\ action[s].status = "returned"
  /\ ui_agent[s] = action[s].ui
  /\ action[s].attempts < max_attempts
  /\ ~TruthyValue(action[s].response)
  /\ ~TruthyValue(action[s].polled_error)
  /\ LET r == get_response(agents[action[s].ui], action[s].trace_id)
         e == get_error(r.agent, action[s].trace_id)
     IN /\ agents' = [agents EXCEPT ![action[s].ui] = e.agent]
        /\ action' = [action EXCEPT
              ![s].response = r.value,
              ![s].polled_error = e.value,
              ![s].attempts = IF TruthyValue(r.value) \/ TruthyValue(e.value)
                                THEN @ ELSE @ + 1]
  /\ UNCHANGED <<api_key, handlers, subscribers, message_queue, nextId, ui_agent,
                 retrieval_agent, stack, pending, escaped, returned>>

NextPoll ==
  \/ \E s \in Sessions : Rerun(s)
  \/ \E s \in Sessions : Upload(s)
  \/ \E s \in Sessions : Ask(s)
  \/ \E s \in Sessions : ClearStore(s)
  \/ \E s \in Sessions : Deliver(s)
  \/ \E s \in Sessions : Handle(s)
  \/ \E s \in Sessions : Poll(s)

\* the application with the chat's polling loop
SpecPoll == Init /\ [][NextPoll]_vars

\* Two browser sessions of one process: each script thread runs its own
\* asyncio.run, so the handlers of one session's action interleave with the
\* script runs and the handlers of the other's.
Rerun2(s) == Run(s, MaxAgents2)

Next2 ==
  \/ \E s \in Sessions : Rerun2(s)
  \/ \E s \in Sessions : Upload(s)
  \/ \E s \in Sessions : Ask(s)
  \/ \E s \in Sessions : ClearStore(s)
  \/ \E s \in Sessions : Deliver(s)
  \/ \E s \in Sessions : Handle(s)

Spec2 == Init /\ [][Next2]_vars

(* --------------------------- the bus, directly ------------------------- *)
\* message_bus is a module-level object: any code of the process can hand it
\* an envelope of its own making.  The envelopes tried: every kind, to every
\* name, from a name that stores an ERROR ("UI"), one that drops it and one
\* that is not registered, with a payload of the kind's shape, one that lacks
\* what the handler reads, or {}.
SampleChunk ==
  [text |-> ShortText, page |-> 1, type |-> "pdf", source |-> <<"report", "pdf">>]
SamplePayloads(type) ==
  CASE type = DOC_UPLOADED ->
         {[file_name |-> <<"report", "pdf">>,
           file_data |-> FileData(FALSE, <<ShortText>>)]}
    [] type = DOC_INGESTED ->
         {[chunks |-> <<SampleChunk>>, file_name |-> <<"report", "pdf">>,
           total_chunks |-> 1]}
    [] type = USER_QUERY -> {[query |-> "what is X?"]}
    [] type = RETRIEVAL_REQUEST -> {[query |-> "what is X?", n_results |-> 1]}
    [] type = RETRIEVAL_RESULT ->
         {[retrieved_context |-> <<ContextItem(Hit(SampleChunk, 1))>>,
           query |-> "what is X?", total_results |-> 1],
          [retrieved_context |-> << [source |-> <<"report", "pdf">>] >>,
           query |-> "what is X?", total_results |-> 1]}
    [] type = FINAL_RESPONSE ->
         {[answer |-> NoInfoAnswer, source_info |-> <<>>, query |-> "what is X?"]}
    [] OTHER -> {[error |-> "boom", original_message |-> to_dict(NoMessage)]}
\* who publishes: a caller naming itself "UI" or "RetrievalAgent" under a new
\* trace id, or one under an unregistered name that leaves the trace id ""
Publishers(fresh) ==
  { [sender |-> UI, trace_id |-> fresh],
    [sender |-> RetrievalAgent, trace_id |-> fresh],
    [sender |-> Nobody, trace_id |-> EmptyTrace] }

\* message_bus.send_message(message) called from outside the agents, one
\* envelope at a time (by the first session: which thread calls is immaterial
\* while no other is inside the bus)
Publish(s) ==
  /\ \A t \in Sessions : ~Busy(t) /\ ~Before(t, s)
  /\ nextId <= MaxPublish
  /\ \E who \in Publishers(nextId), receiver \in Names, type \in MessageType :
       \E payload \in SamplePayloads(type) \cup {EmptyMap} :
         Begin(s, "publish", who.trace_id,
               MCPMessage(who.sender, receiver, type, who.trace_id, payload))

NextBus ==
  \/ \E s \in Sessions : Rerun(s)
  \/ \E s \in Sessions : Publish(s)
  \/ \E s \in Sessions : Deliver(s)
  \/ \E s \in Sessions : Handle(s)

\* the bus and the agents under envelopes of any make
SpecBus == Init /\ [][NextBus]_vars

(* ------------------------- the stages, one by one ---------------------- *)
\* The envelopes a stage is given by the stage before it, handed to the bus
\* one after the other: documents and chunks of every type (one the locator
\* mapping does not know, one without a type), requests for fewer, as many
\* and more results than the index holds, and payloads that lack a field.
ReportChunk(page) ==
  [text |-> ShortText, page |-> page, type |-> "pdf", source |-> <<"report", "pdf">>]
MixedChunks ==
  << [text |-> ShortText, slide |-> 2, type |-> "pptx", source |-> <<"deck", "pptx">>],
     [text |-> LongText, row |-> 11, type |-> "csv", source |-> <<"data", "csv">>],
     [text |-> ShortText, paragraph |-> 4, type |-> "docx", source |-> <<"memo", "docx">>],
     [text |-> LongText, paragraph |-> 1, type |-> "md", source |-> <<"notes", "md">>] >>
HtmlChunk ==
  [text |-> ShortText, paragraph |-> 1, type |-> "html", source |-> <<"page", "html">>]
UntypedChunk == [text |-> ShortText, source |-> <<"raw">>]
\* a text that just fills a snippet and one that is a character too long
EdgeChunks ==
  << [text |-> Text("full", SNIPPET_LEN), page |-> 1, type |-> "pdf",
      source |-> <<"edge", "pdf">>],
     [text |-> Text("over", SNIPPET_LEN + 1), page |-> 2, type |-> "pdf",
      source |-> <<"edge", "pdf">>] >>

Ingested(chunks, name) ==
  [chunks |-> chunks, file_name |-> name, total_chunks |-> Len(chunks)]

StageInputs(fresh) ==
  {MCPMessage(UI, IngestionAgent, DOC_UPLOADED, fresh, p) : p \in
     { [file_name |-> <<"report", "pdf">>,
        file_data |-> FileData(FALSE, <<ShortText, Blank, LongText>>)],
       [file_name |-> <<"report", "pdf">>],
       [file_data |-> FileData(TRUE, <<ShortText>>)],
       [file_name |-> <<>>, file_data |-> FileData(FALSE, <<ShortText>>)] }}
  \cup
  {MCPMessage(IngestionAgent, RetrievalAgent, DOC_INGESTED, fresh, p) : p \in
     { Ingested(<<ReportChunk(1), ReportChunk(2), ReportChunk(3)>>, <<"report", "pdf">>),
       Ingested(MixedChunks, <<"mixed">>),
       Ingested(<<HtmlChunk>>, <<"page", "html">>),
       Ingested(<<UntypedChunk>>, <<"raw">>) }}
  \cup
  {MCPMessage(LLMResponseAgent, RetrievalAgent, RETRIEVAL_REQUEST, fresh, p) : p \in
     { [query |-> "what is X?", n_results |-> 1],
       [query |-> "what is X?", n_results |-> 3],
       [query |-> "what is X?"],
       [n_results |-> 3],
       [query |-> "", n_results |-> 3] }}
  \cup
  {MCPMessage(UI, LLMResponseAgent, USER_QUERY, fresh, p) : p \in
     { [query |-> "what is X?"], EmptyMap, [query |-> ""] }}
  \cup
  {MCPMessage(RetrievalAgent, LLMResponseAgent, RETRIEVAL_RESULT, fresh, p) : p \in
     { [retrieved_context |->
          [i \in 1..4 |-> ContextItem(Hit(MixedChunks[i], i))],
        query |-> "what is X?", total_results |-> 4],
       [retrieved_context |-> <<ContextItem(Hit(ReportChunk(1), 1))>>,
        query |-> "what is X?", total_results |-> 1],
       [retrieved_context |->
          [i \in 1..2 |-> ContextItem(Hit(EdgeChunks[i], i))],
        query |-> "what is X?", total_results |-> 2] }}

\* bus.send_message(message) with one of these envelopes, under a new trace
\* id, while nothing else is going on
Feed(s) ==
  /\ \A t \in Sessions : ~Busy(t) /\ ~Before(t, s)
  /\ nextId <= MaxFeed
  /\ \E m \in StageInputs(uuid4(nextId)) : Begin(s, "feed", m.trace_id, m)

\* the first script run of a session: initialize_agents constructs the stages
FirstRun(s) == retrieval_agent[s] = 0 /\ Run(s, MaxAgents)

NextStages ==
  \/ \E s \in Sessions : FirstRun(s)
  \/ \E s \in Sessions : Feed(s)
  \/ \E s \in Sessions : Deliver(s)
  \/ \E s \in Sessions : Handle(s)

SpecStages == Init /\ [][NextStages]_vars

(* ------------------------------ properties ----------------------------- *)

\* the envelopes of the queue, as a set of positions
Queued(P(_)) == {i \in DOMAIN message_queue : P(message_queue[i])}
UIAgents == {i \in DOMAIN agents : agents[i].cls = UI}
Done(s) == action[s].status \in {"returned", "raised"}
AllRegistered == \A n \in AgentNames : handlers[n] # 0

\* message_bus.send_message(message) with an envelope of any kind, between
\* any two registered stages, under a new trace id or "", once all four
\* stages are registered and while nothing else is going on
PublishAny(s) ==
  /\ \A t \in Sessions : ~Busy(t) /\ ~Before(t, s)
  /\ AllRegistered
  /\ nextId <= MaxPublish
  /\ \E sender \in AgentNames, receiver \in AgentNames, type \in MessageType :
       \E trace_id \in {uuid4(nextId), EmptyTrace} :
         \E payload \in SamplePayloads(type) \cup {EmptyMap} :
           Begin(s, "publish", trace_id,
                 MCPMessage(sender, receiver, type, trace_id, payload))

NextChain ==
  \/ \E s \in Sessions : FirstRun(s)
  \/ \E s \in Sessions : PublishAny(s)
  \/ \E s \in Sessions : Deliver(s)
  \/ \E s \in Sessions : Handle(s)

\* The stages under one envelope after the other.  asyncio.run runs the
\* coroutine it is given until it is done, and an awaited coroutine is run:
\* a session that is inside send_message or a handler goes on.
SpecChain ==
  /\ Init
  /\ [][NextChain]_vars
  /\ \A s \in Sessions : WF_vars(Deliver(s)) /\ WF_vars(Handle(s))

\* C1. Trace integrity: while upload_document or ask_question runs, every
\* envelope of its chain -- the one being handled by each handler invocation
\* the session is inside, and the one just handed to the bus, on the success
\* path or the error path -- carries the trace id of the action's first
\* envelope (DOC_UPLOADED or USER_QUERY).
C1_TraceIntegrity ==
  \A s \in Sessions :
    (Busy(s) /\ action[s].op \in {"upload", "ask"}) =>
      /\ action[s].first.type \in {DOC_UPLOADED, USER_QUERY}
      /\ action[s].first.trace_id = action[s].trace_id
      /\ \A i \in DOMAIN stack[s] : stack[s][i].msg.trace_id = action[s].first.trace_id
      /\ \A i \in DOMAIN pending[s] : pending[s][i].trace_id = action[s].first.trace_id

\* C1 witness: a question's chain is three envelopes deep and on its error
\* path: RetrievalAgent has just handed the bus its ERROR envelope.
C1_Witness ==
  \E s \in Sessions :
    /\ Busy(s) /\ action[s].op = "ask"
    /\ pending[s] # <<>>
    /\ pending[s][1].type = ERROR
    /\ pending[s][1].sender = RetrievalAgent
    /\ Len(stack[s]) = 2

\* C2. Eventual population for queries: with all four stages registered, once
\* ask_question has returned, some UIAgent holds an entry for the returned
\* trace id in responses or in errors.
C2_EventualPopulation ==
  \A s \in Sessions :
    (action[s].op = "ask" /\ action[s].status = "returned" /\ AllRegistered) =>
      \E i \in UIAgents :
        action[s].trace_id \in DOMAIN agents[i].responses \cup DOMAIN agents[i].errors

\* the parser fails for the payload of a DOC_UPLOADED envelope
ParserFails(p) ==
  TruthyName(p) /\ TruthyData(p) /\ ~parse_document(p.file_data, p.file_name).ok

\* C3. Error containment on upload: when the parser fails for an uploaded
\* document, upload_document returns normally, exactly one ERROR envelope was
\* sent to "UI" under the upload's trace id and a UIAgent stored it, and no
\* DOC_INGESTED envelope was emitted under that trace id.
C3_UploadErrorContained ==
  \A s \in Sessions :
    (action[s].op = "upload" /\ Done(s) /\ ParserFails(action[s].first.payload)) =>
      LET tid == action[s].trace_id
          IsError(m) == m.type = ERROR /\ m.trace_id = tid /\ m.receiver = UI
          IsIngested(m) == m.type = DOC_INGESTED /\ m.trace_id = tid
      IN /\ action[s].status = "returned"
         /\ Cardinality(Queued(IsError)) = 1
         /\ \E i \in UIAgents :
              /\ tid \in DOMAIN agents[i].errors
              /\ agents[i].errors[tid].original_message = to_dict(action[s].first)
         /\ Queued(IsIngested) = {}

\* C3 witness: an upload of a corrupt PDF has returned.
C3_Witness ==
  \E s \in Sessions :
    /\ action[s].op = "upload" /\ action[s].status = "returned"
    /\ ParserFails(action[s].first.payload)
    /\ action[s].first.payload.file_data.corrupt

\* session s is in the except block of a handler and has just handed the bus
\* the envelope _send_error_message built
InExcept(s) ==
  /\ stack[s] # <<>>
  /\ Top(s).phase = "except"
  /\ pending[s] # <<>>

\* the ERROR envelope carries the error description and a copy of the
\* original envelope
CarriesOriginal(e, m) ==
  /\ e.type = ERROR
  /\ DOMAIN e.payload = {"error", "original_message"}
  /\ e.payload.error # NoExc
  /\ e.payload.original_message = to_dict(m)

\* C4 as stated. Failure addressing: for IngestionAgent, RetrievalAgent and
\* LLMResponseAgent, the ERROR envelope a failing handler emits is addressed
\* to the sender of the envelope it was handling, and its payload carries the
\* error description and a copy of that envelope.
C4_AddressedToSender ==
  \A s \in Sessions :
    InExcept(s) =>
      /\ agents[Top(s).agent].cls \in {IngestionAgent, RetrievalAgent, LLMResponseAgent}
      /\ pending[s][1].sender = agents[Top(s).agent].cls
      /\ pending[s][1].receiver = Top(s).msg.sender
      /\ CarriesOriginal(pending[s][1], Top(s).msg)

\* C4 amended. Failure addressing: IngestionAgent and RetrievalAgent address
\* the ERROR envelope to the sender of the envelope they were handling;
\* LLMResponseAgent addresses it to "UI" whoever the sender was. In all three
\* the payload carries the error description and a copy of that envelope.
C4_AddressedToSenderOrUI ==
  \A s \in Sessions :
    InExcept(s) =>
      LET cls == agents[Top(s).agent].cls
      IN /\ cls \in {IngestionAgent, RetrievalAgent, LLMResponseAgent}
         /\ pending[s][1].sender = cls
         /\ cls \in {IngestionAgent, RetrievalAgent} =>
              pending[s][1].receiver = Top(s).msg.sender
         /\ cls = LLMResponseAgent => pending[s][1].receiver = UI
         /\ CarriesOriginal(pending[s][1], Top(s).msg)

\* C4 witness: LLMResponseAgent failed on an envelope RetrievalAgent sent it
\* and has emitted its ERROR envelope.
C4_Witness ==
  \E s \in Sessions :
    /\ InExcept(s)
    /\ agents[Top(s).agent].cls = LLMResponseAgent
    /\ Top(s).msg.sender = RetrievalAgent
    /\ pending[s][1].type = ERROR

\* a publish whose first envelope names a receiver no handler is bound to
ToUnregistered(s) ==
  /\ action[s].op = "publish"
  /\ Done(s)
  /\ handlers[action[s].first.receiver] = 0
  /\ message_queue # <<>>
  /\ Last(message_queue) = action[s].first

\* C5 as stated. Unknown receiver: publishing an envelope whose receiver has
\* no registered handler fails with an UnknownReceiver fault that aborts the
\* publish.
C5_UnknownReceiverFaults ==
  \A s \in Sessions :
    ToUnregistered(s) => action[s].status = "raised" /\ action[s].error # NoExc

\* C5 amended. Unknown receiver: publishing an envelope whose receiver has no
\* registered handler appends the envelope to the queue, invokes no handler,
\* changes no agent and raises nothing: the publish returns normally if it
\* was the application's own, and the emitting handler carries on otherwise.
C5_UnknownReceiverIgnored ==
  [][\A s \in Sessions :
       (/\ pending[s] # <<>>
        /\ handlers[pending[s][1].receiver] = 0
        /\ pending'[s] # pending[s]) =>
         /\ message_queue' = Append(message_queue, pending[s][1])
         /\ Len(stack'[s]) <= Len(stack[s])
         /\ \A i \in DOMAIN stack'[s] : stack'[s][i].msg = stack[s][i].msg
         /\ agents' = agents
         /\ escaped'[s] = NoExc
         /\ action'[s].status # "raised"
         /\ action'[s].error = NoExc]_vars

\* C5 witness: a publish to an unregistered receiver has returned, with the
\* envelope last on the queue.
C5_Witness ==
  \E s \in Sessions :
    /\ ToUnregistered(s)
    /\ action[s].status = "returned"
    /\ action[s].first.receiver = Nobody

\* the trace ids of the handler invocations not yet finished, and of the
\* envelopes handed to the bus and not yet delivered
InFlight ==
  UNION {{stack[s][i].msg.trace_id : i \in DOMAIN stack[s]} \cup
         {pending[s][i].trace_id : i \in DOMAIN pending[s]} : s \in Sessions}

\* what the UIAgents hold for a trace id
StoredFor(tid) ==
  [i \in UIAgents |->
     [responses |-> IF tid \in DOMAIN agents[i].responses
                      THEN {agents[i].responses[tid]} ELSE {},
      errors |-> IF tid \in DOMAIN agents[i].errors
                   THEN {agents[i].errors[tid]} ELSE {}]]

\* C6. Synchronous completion: upload_document and ask_question return only
\* after the handler of their envelope, and of every envelope emitted in
\* turn, has finished: once an action has returned its trace id, no handler
\* invocation and no undelivered envelope carries that trace id, and no
\* UIAgent's responses or errors changes for that trace id afterwards.
C6_SynchronousCompletion ==
  [][/\ \A tid \in returned' : tid \notin InFlight'
     /\ \A tid \in returned :
          \A i \in UIAgents : StoredFor(tid)'[i] = StoredFor(tid)[i]]_vars

\* C6 witness: an action has returned with its outcome stored, and a later
\* action of the same session is inside a handler.
C6_Witness ==
  \E s \in Sessions, tid \in returned :
    /\ \E i \in UIAgents :
         tid \in DOMAIN agents[i].responses \cup DOMAIN agents[i].errors
    /\ Busy(s) /\ stack[s] # <<>>
    /\ action[s].trace_id # tid

\* C7. No re-raise: handle_message of every agent returns normally for every
\* message kind and every failure of its own or of a stage it called:
\* no exception leaves a handler, so none reaches the publisher.
C7_NoReRaise ==
  \A s \in Sessions :
    /\ escaped[s] = NoExc
    /\ action[s].status # "raised"
    /\ action[s].error = NoExc

\* C7 witness: a publish has returned although RetrievalAgent, called by
\* LLMResponseAgent's handler, failed on the way.
C7_Witness ==
  \E s \in Sessions :
    /\ action[s].status = "returned"
    /\ action[s].first.type = USER_QUERY
    /\ \E i \in DOMAIN message_queue :
         /\ message_queue[i].type = ERROR
         /\ message_queue[i].sender = RetrievalAgent
         /\ Has(message_queue[i].payload, "original_message")
         /\ message_queue[i].payload.original_message.type = RETRIEVAL_REQUEST
         /\ message_queue[i].payload.original_message.sender = LLMResponseAgent

\* the kinds the dispatch of handle_message has a branch for
Recognized(cls) ==
  CASE cls = UI -> {FINAL_RESPONSE, ERROR}
    [] cls = IngestionAgent -> {DOC_UPLOADED}
    [] cls = RetrievalAgent -> {DOC_INGESTED, RETRIEVAL_REQUEST}
    [] cls = LLMResponseAgent -> {USER_QUERY, RETRIEVAL_RESULT}

\* session s is entering a handler with an envelope of a kind the handler
\* has no branch for
AtUnrecognized(s) ==
  /\ stack[s] # <<>>
  /\ Top(s).phase = "start"
  /\ Top(s).msg.type \notin Recognized(agents[Top(s).agent].cls)

\* C8. Unrecognized kind dropped: a handler given an envelope of a kind it
\* has no branch for (an ERROR arriving at IngestionAgent, RetrievalAgent or
\* LLMResponseAgent included, and any but FINAL_RESPONSE and ERROR at
\* UIAgent) returns at once: it emits no envelope, raises no error, and
\* leaves every agent's state, the UIAgents' responses and errors included,
\* as it was.
C8_UnrecognizedDropped ==
  [][\A s \in Sessions :
       (AtUnrecognized(s) /\ stack'[s] # stack[s]) =>
         /\ pending'[s] = <<>>
         /\ message_queue' = message_queue
         /\ agents' = agents
         /\ escaped'[s] = NoExc
         /\ action'[s].status # "raised"
         /\ Len(stack'[s]) < Len(stack[s])]_vars

\* C8 witness: RetrievalAgent's ERROR was delivered to LLMResponseAgent,
\* which had sent the request, and the publish has returned with that ERROR
\* the last envelope emitted.
C8_Witness ==
  \E s \in Sessions :
    /\ action[s].status = "returned"
    /\ message_queue # <<>>
    /\ Last(message_queue).type = ERROR
    /\ Last(message_queue).sender = RetrievalAgent
    /\ Last(message_queue).receiver = LLMResponseAgent
    /\ Has(Last(message_queue).payload, "original_message")
    /\ Last(message_queue).payload.original_message.sender = LLMResponseAgent

\* C9. Last-registration-wins: after any sequence of subscribe calls each
\* name is bound to the handler of the most recent subscribe for that name
\* (and to none if there was no subscribe), and an envelope is delivered once,
\* to that handler and to no earlier one.
C9_LastRegistrationWins ==
  [][/\ \A n \in Names :
          handlers'[n] = IF subscribers'[n] = <<>> THEN 0 ELSE Last(subscribers'[n])
     /\ \A s \in Sessions :
          Len(stack'[s]) > Len(stack[s]) =>
            /\ Len(stack'[s]) = Len(stack[s]) + 1
            /\ pending[s] # <<>>
            /\ Last(stack'[s]).msg = pending[s][1]
            /\ Last(stack'[s]).agent = Last(subscribers[pending[s][1].receiver])
            /\ message_queue' = Append(message_queue, pending[s][1])]_vars

\* C9 witness: "UI" has been subscribed twice and an envelope addressed to
\* "UI" is in the hands of the second handler.
C9_Witness ==
  \E s \in Sessions :
    /\ stack[s] # <<>>
    /\ Top(s).msg.receiver = UI
    /\ Len(subscribers[UI]) >= 2
    /\ Top(s).agent = subscribers[UI][2]
    /\ Top(s).agent # subscribers[UI][1]

\* C10. Single terminal outcome: no UIAgent holds, for one trace id, both a
\* FINAL_RESPONSE payload in responses and an ERROR payload in errors.
C10_SingleOutcome ==
  \A i \in UIAgents : DOMAIN agents[i].responses \cap DOMAIN agents[i].errors = {}

\* C10 witness: one UIAgent holds a response for one question and an error
\* for another.
C10_Witness ==
  \E i \in UIAgents, s \in Sessions :
    /\ DOMAIN agents[i].responses # {}
    /\ DOMAIN agents[i].errors # {}
    /\ action[s].op = "ask" /\ action[s].status = "returned"

\* the envelopes of a kind that were handed to the bus for "UI" under a trace id
Terminal(tid, type) ==
  {i \in DOMAIN message_queue :
     /\ message_queue[i].receiver = UI
     /\ message_queue[i].type = type
     /\ message_queue[i].trace_id = tid}

\* C11. Concurrent actions: when the actions of two sessions run interleaved
\* under distinct trace ids, the registry binds every name to an agent of
\* that name, the terminal payload (FINAL_RESPONSE or ERROR sent to "UI") of
\* each returned action is held by a UIAgent under the action's own trace id
\* (no write is lost), and whatever a UIAgent holds under a trace id is the
\* payload of an envelope that carried that trace id (never the other
\* action's).
C11_ConcurrentActions ==
  /\ \A n \in AgentNames : handlers[n] # 0 => agents[handlers[n]].cls = n
  /\ \A s \in Sessions :
       (action[s].op \in {"upload", "ask"} /\ action[s].status = "returned") =>
         LET tid == action[s].trace_id
         IN /\ \A i \in Terminal(tid, FINAL_RESPONSE) :
                 \E u \in UIAgents :
                   /\ tid \in DOMAIN agents[u].responses
                   /\ agents[u].responses[tid] = message_queue[i].payload
            /\ \A i \in Terminal(tid, ERROR) :
                 \E u \in UIAgents :
                   /\ tid \in DOMAIN agents[u].errors
                   /\ agents[u].errors[tid] = message_queue[i].payload
  /\ \A u \in UIAgents :
       /\ \A tid \in DOMAIN agents[u].responses :
            \E i \in Terminal(tid, FINAL_RESPONSE) :
              agents[u].responses[tid] = message_queue[i].payload
       /\ \A tid \in DOMAIN agents[u].errors :
            \E i \in Terminal(tid, ERROR) :
              agents[u].errors[tid] = message_queue[i].payload

\* C11 witness: the actions of the two sessions have both returned with
\* their outcomes stored, and the queue shows their chains interleaved: an
\* envelope of the second lies between two envelopes of the first.
C11_Witness ==
  /\ \A s \in Sessions :
       /\ action[s].status = "returned"
       /\ \E u \in UIAgents :
            action[s].trace_id \in
              DOMAIN agents[u].responses \cup DOMAIN agents[u].errors
  /\ action["s1"].trace_id # action["s2"].trace_id
  /\ \E i, j, k \in DOMAIN message_queue :
       /\ i < j /\ j < k
       /\ message_queue[i].trace_id = message_queue[k].trace_id
       /\ message_queue[j].trace_id # message_queue[i].trace_id

\* the locator keys, and the one the mapping gives a document type
\* (no key for a type it does not know)
Locators == {"page", "slide", "row", "paragraph"}
LocatorOf(type) ==
  CASE type = "pdf" -> {"page"}
    [] type = "pptx" -> {"slide"}
    [] type = "csv" -> {"row"}
    [] type \in {"docx", "txt", "md"} -> {"paragraph"}
    [] OTHER -> {}

\* session s is inside RetrievalAgent's handler, which has just handed the
\* bus the RETRIEVAL_RESULT for the request it was given
InResult(s) ==
  /\ stack[s] # <<>>
  /\ agents[Top(s).agent].cls = RetrievalAgent
  /\ Top(s).msg.type = RETRIEVAL_REQUEST
  /\ Top(s).phase = "try"
  /\ pending[s] # <<>>
  /\ pending[s][1].type = RETRIEVAL_RESULT

\* C12. Total locator mapping in Retrieval: every context item of a
\* RETRIEVAL_RESULT is built from a hit of a known document type and has
\* exactly one locator key, the one its type determines (pdf: page, pptx:
\* slide, csv: row, docx, txt and md: paragraph); a request that hits a
\* document of an unknown type yields an ERROR envelope, never a context
\* item without a locator.
C12_TotalLocatorMapping ==
  \A s \in Sessions :
    InResult(s) =>
      LET docs == agents[Top(s).agent].docs
          items == pending[s][1].payload.retrieved_context
      IN \A j \in DOMAIN items :
           /\ Cardinality(DOMAIN items[j] \cap Locators) = 1
           /\ Has(docs[j], "type")
           /\ DOMAIN items[j] \cap Locators = LocatorOf(docs[j].type)

\* the payload of the envelope lacks a field its handler requires, and the
\* message the handler raises for it
Malformed(cls, m) ==
  \/ cls = IngestionAgent /\ m.type = DOC_UPLOADED
       /\ (~Has(m.payload, "file_name") \/ ~Has(m.payload, "file_data"))
  \/ cls = LLMResponseAgent /\ m.type = USER_QUERY /\ ~Has(m.payload, "query")
  \/ cls = RetrievalAgent /\ m.type = RETRIEVAL_REQUEST /\ ~Has(m.payload, "query")
MalformedError(cls) ==
  CASE cls = IngestionAgent -> "Missing file_name or file_data in payload"
    [] cls = LLMResponseAgent -> "Missing query in user message"
    [] cls = RetrievalAgent -> "Missing query in retrieval request"

\* the kind a handler sends on when all goes well
Forward(cls) ==
  CASE cls = IngestionAgent -> DOC_INGESTED
    [] cls = LLMResponseAgent -> RETRIEVAL_REQUEST
    [] cls = RetrievalAgent -> RETRIEVAL_RESULT

\* C13. Malformed payloads: a DOC_UPLOADED envelope lacking file_name or
\* file_data, a USER_QUERY envelope lacking query and a RETRIEVAL_REQUEST
\* envelope lacking query each make their handler emit one ERROR envelope
\* and no forward envelope (DOC_INGESTED, RETRIEVAL_REQUEST, RETRIEVAL_RESULT
\* respectively); the parser, the index and the model are not called: the
\* error is the handler's own whatever they would have done, and no agent's
\* state changes.
C13_MalformedPayloads ==
  [][\A s \in Sessions :
       (/\ stack[s] # <<>>
        /\ Top(s).phase = "start"
        /\ Malformed(agents[Top(s).agent].cls, Top(s).msg)
        /\ stack'[s] # stack[s]) =>
         LET cls == agents[Top(s).agent].cls
         IN /\ Len(pending'[s]) = 1
            /\ pending'[s][1].type = ERROR
            /\ pending'[s][1].sender = cls
            /\ pending'[s][1].payload.error = MalformedError(cls)
            /\ Len(stack'[s]) = Len(stack[s])
            /\ Last(stack'[s]).phase = "except"
            /\ agents' = agents
            /\ \A i \in DOMAIN message_queue' :
                 message_queue'[i].trace_id = Top(s).msg.trace_id =>
                   message_queue'[i].type # Forward(cls)]_vars

\* C13 witness: RetrievalAgent was given a RETRIEVAL_REQUEST without a query
\* while its index held documents, and has emitted its ERROR envelope.
C13_Witness ==
  \E s \in Sessions :
    /\ InExcept(s)
    /\ agents[Top(s).agent].cls = RetrievalAgent
    /\ Malformed(RetrievalAgent, Top(s).msg)
    /\ agents[Top(s).agent].docs # <<>>
    /\ pending[s][1].type = ERROR

\* session s is inside LLMResponseAgent's handler, which has just handed the
\* bus the FINAL_RESPONSE for the RETRIEVAL_RESULT it was given
InFinal(s) ==
  /\ stack[s] # <<>>
  /\ agents[Top(s).agent].cls = LLMResponseAgent
  /\ Top(s).msg.type = RETRIEVAL_RESULT
  /\ Top(s).phase = "try"
  /\ pending[s] # <<>>
  /\ pending[s][1].type = FINAL_RESPONSE

\* C14. Source info shape: when a RETRIEVAL_RESULT is handled successfully,
\* source_info of the FINAL_RESPONSE has one entry per retrieved context
\* item, in the same order, and each entry is exactly the item's document
\* and the item's single locator key with the item's value for it.
C14_SourceInfoShape ==
  \A s \in Sessions :
    InFinal(s) =>
      LET items == Top(s).msg.payload.retrieved_context
          info == pending[s][1].payload.source_info
      IN /\ Len(info) = Len(items)
         /\ \A i \in DOMAIN items :
              /\ info[i].document = items[i].source
              /\ \E k \in Locators :
                   /\ DOMAIN items[i] \cap Locators = {k}
                   /\ DOMAIN info[i] = {"document", k}
                   /\ info[i][k] = items[i][k]

\* ask_question of session s returns in this step
AskReturns(s) ==
  /\ action[s].op = "ask"
  /\ action[s].status = "running"
  /\ action'[s].status = "returned"

\* RetrievalAgent's collaborator raised while the chain of a trace id ran
IndexRaised(tid) ==
  \E i \in DOMAIN message_queue :
    /\ message_queue[i].trace_id = tid
    /\ message_queue[i].type = ERROR
    /\ message_queue[i].sender = RetrievalAgent

\* C15. Empty-index query: without a generation model (no API key) and with
\* an empty index that answers, ask_question(q) for a non-empty q returns
\* with a FINAL_RESPONSE stored under its trace id by the UIAgent that asked:
\* the retrieved context was empty, the answer is the fixed "couldn't find
\* relevant information" sentence and source_info is empty; no UIAgent holds
\* an ERROR for the trace id.
C15_EmptyIndexQuery ==
  [][\A s \in Sessions :
       (/\ AskReturns(s)
        /\ action[s].first.payload.query # ""
        /\ ~api_key
        /\ agents[handlers[RetrievalAgent]].docs = <<>>
        /\ ~IndexRaised(action[s].trace_id)') =>
         LET tid == action[s].trace_id
             ui == agents'[action[s].ui]
         IN /\ tid \in DOMAIN ui.responses
            /\ ui.responses[tid] =
                 [answer |-> NoInfoAnswer, source_info |-> <<>>,
                  query |-> action[s].first.payload.query]
            /\ \A u \in UIAgents' : tid \notin DOMAIN agents'[u].errors
            /\ \E i \in DOMAIN message_queue :
                 /\ message_queue[i].trace_id = tid
                 /\ message_queue[i].type = RETRIEVAL_RESULT
                 /\ message_queue[i].payload.retrieved_context = <<>>
                 /\ message_queue[i].payload.total_results = 0]_vars

\* C15 witness: a question asked without an API key has returned with the
\* fixed answer stored, and the index is empty.
C15_Witness ==
  \E s \in Sessions :
    /\ ~api_key
    /\ action[s].op = "ask" /\ action[s].status = "returned"
    /\ action[s].first.payload.query # ""
    /\ agents[handlers[RetrievalAgent]].docs = <<>>
    /\ action[s].trace_id \in DOMAIN agents[action[s].ui].responses
    /\ agents[action[s].ui].responses[action[s].trace_id].answer = NoInfoAnswer

\* the calls of _generate_fallback_response so far: the RETRIEVAL_RESULT that
\* LLMResponseAgent was given and the FINAL_RESPONSE it sent under the same
\* trace id, when the answer is not Gemini's
FallbackCalls ==
  {c \in (DOMAIN message_queue) \X (DOMAIN message_queue) :
     /\ c[1] < c[2]
     /\ message_queue[c[1]].type = RETRIEVAL_RESULT
     /\ message_queue[c[1]].receiver = LLMResponseAgent
     /\ message_queue[c[2]].type = FINAL_RESPONSE
     /\ message_queue[c[2]].sender = LLMResponseAgent
     /\ message_queue[c[2]].trace_id = message_queue[c[1]].trace_id
     /\ message_queue[c[2]].payload.answer.kind # "gemini"}
FallbackArgs(c) ==
  <<QueryOf(message_queue[c[1]].payload),
    message_queue[c[1]].payload.retrieved_context>>

Requested(p) == IF Has(p, "n_results") THEN p.n_results ELSE DEFAULT_N_RESULTS

InIngested(s) ==
  /\ stack[s] # <<>>
  /\ agents[Top(s).agent].cls = IngestionAgent
  /\ Top(s).msg.type = DOC_UPLOADED
  /\ Top(s).phase = "try"
  /\ pending[s] # <<>>
  /\ pending[s][1].type = DOC_INGESTED

\* C18. Count fields agree with payload: in every DOC_INGESTED envelope that
\* IngestionAgent emits total_chunks is the length of chunks, and in every
\* RETRIEVAL_RESULT envelope that RetrievalAgent emits total_results is the
\* length of retrieved_context.
C18_CountFieldsAgree ==
  \A s \in Sessions :
    /\ InIngested(s) =>
         pending[s][1].payload.total_chunks = Len(pending[s][1].payload.chunks)
    /\ InResult(s) =>
         pending[s][1].payload.total_results =
           Len(pending[s][1].payload.retrieved_context)

\* C18 witness: a PDF of three pages, one of them blank, was ingested as two
\* chunks.
C18_Witness ==
  \E s \in Sessions :
    /\ InIngested(s)
    /\ Len(Top(s).msg.payload.file_data.parts) = 3
    /\ Len(pending[s][1].payload.chunks) = 2
    /\ pending[s][1].payload.total_chunks = 2


\* the kind of envelope an entry point of the UIAgent emits
Emits(op) == IF op = "upload" THEN DOC_UPLOADED ELSE USER_QUERY

\* upload_document or ask_question of session s returns in this step
CallReturns(s) ==
  /\ action[s].op \in {"upload", "ask"}
  /\ action[s].status = "running"
  /\ action'[s].status = "returned"

\* C19. Fresh trace id per action: the trace id a call of upload_document or
\* ask_question returns was returned by no earlier call, and it is the
\* trace_id of the DOC_UPLOADED or USER_QUERY envelope the call handed to the
\* bus.
C19_FreshTraceIdPerAction ==
  [][\A s \in Sessions :
       CallReturns(s) =>
         /\ action'[s].trace_id \notin returned
         /\ action'[s].trace_id \in returned'
         /\ action[s].first.type = Emits(action[s].op)
         /\ action[s].first.sender = UI
         /\ action[s].first.trace_id = action'[s].trace_id
         /\ \E i \in DOMAIN message_queue' : message_queue'[i] = action[s].first]_vars

\* C19 witness: an ask_question has returned after an earlier call had
\* returned its own trace id.
C19_Witness ==
  \E s \in Sessions :
    /\ action[s].op = "ask"
    /\ action[s].status = "returned"
    /\ action[s].trace_id \in returned
    /\ \E t \in returned : t # action[s].trace_id


\* session s makes an attempt of its polling loop in this step
PollStep(s) ==
  /\ action[s].status = "returned"
  /\ action'[s].status = "returned"
  /\ action'[s] # action[s]

\* C20. Store is read-only under polling and never shrinks: get_response and
\* get_error leave responses and errors of every UIAgent as they were, and
\* no step of any operation removes a trace id from the responses or the
\* errors of a UIAgent.
C20_StoreReadOnlyNeverShrinks ==
  [][/\ \A s \in Sessions :
          PollStep(s) =>
            \A i \in UIAgents :
              /\ agents'[i].responses = agents[i].responses
              /\ agents'[i].errors = agents[i].errors
     /\ \A i \in UIAgents :
          /\ i \in DOMAIN agents'
          /\ DOMAIN agents[i].responses \subseteq DOMAIN agents'[i].responses
          /\ DOMAIN agents[i].errors \subseteq DOMAIN agents'[i].errors]_vars

\* C20 witness: the polling loop has read the response of a question, and
\* the entry is still in the store it was read from.
C20_Witness ==
  \E s \in Sessions :
    /\ action[s].op = "ask"
    /\ TruthyValue(action[s].response)
    /\ action[s].trace_id \in DOMAIN agents[action[s].ui].responses
    /\ agents[action[s].ui].responses[action[s].trace_id] = action[s].response[1]


\* session s enters MCPMessageBus.send_message with its pending envelope in
\* this step
SendStep(s) ==
  /\ pending[s] # <<>>
  /\ pending'[s] # pending[s] \/ stack'[s] # stack[s] \/ action'[s] # action[s]

\* C21. Audit record: every envelope passed to send_message is appended to
\* the queue, once and at the end, in the step that enters send_message and
\* so before the receiver's handler runs, whether or not the receiver is
\* registered; every envelope a handler is running on is in the queue; no
\* other step changes the queue, so it only grows, in the order of the calls.
C21_AuditRecord ==
  /\ [][/\ \A s \in Sessions :
             SendStep(s) => message_queue' = Append(message_queue, pending[s][1])
        /\ message_queue' # message_queue => \E s \in Sessions : SendStep(s)
        /\ Len(message_queue') >= Len(message_queue)
        /\ SubSeq(message_queue', 1, Len(message_queue)) = message_queue]_vars
  /\ [](\A s \in Sessions : \A j \in DOMAIN stack[s] :
          \E i \in DOMAIN message_queue : message_queue[i] = stack[s][j].msg)

\* C21 witness: the queue holds an envelope whose receiver has no handler,
\* after the envelopes of a chain that ran before it.
C21_Witness ==
  /\ Len(message_queue) >= 2
  /\ handlers[message_queue[Len(message_queue)].receiver] = 0
  /\ handlers[message_queue[1].receiver] # 0


\* the envelope kinds a stage must answer, and the forward kind of each
Answers(cls, type) ==
  \/ cls = IngestionAgent /\ type = DOC_UPLOADED
  \/ cls = LLMResponseAgent /\ type \in {USER_QUERY, RETRIEVAL_RESULT}
  \/ cls = RetrievalAgent /\ type = RETRIEVAL_REQUEST
ForwardOf(cls, type) ==
  CASE cls = IngestionAgent -> DOC_INGESTED
    [] cls = RetrievalAgent -> RETRIEVAL_RESULT
    [] cls = LLMResponseAgent /\ type = USER_QUERY -> RETRIEVAL_REQUEST
    [] OTHER -> FINAL_RESPONSE

\* C22. One outcome per handler invocation: an invocation of the Ingestion
\* handler on DOC_UPLOADED, of the Generation handler on USER_QUERY or
\* RETRIEVAL_RESULT, or of the Retrieval handler on RETRIEVAL_REQUEST hands
\* the bus one envelope when its body runs, the forward envelope (it is then
\* in its try block) or an ERROR envelope (it is then in its except block);
\* an invocation that has emitted stays as it is until it returns, and no
\* session hands the bus an envelope except from an invocation whose body
\* runs in that step.
C22_OneOutcomePerInvocation ==
  [][\A s \in Sessions :
       /\ \A j \in DOMAIN stack[s] :
            LET f == stack[s][j]
                cls == agents[f.agent].cls
            IN Answers(cls, f.msg.type) =>
                 /\ (f.phase = "start" /\ stack'[s] # stack[s]) =>
                      /\ Len(stack'[s]) = Len(stack[s])
                      /\ j = Len(stack[s])
                      /\ stack'[s][j].phase \in {"try", "except"}
                      /\ Len(pending'[s]) = 1
                      /\ pending'[s][1].sender = cls
                      /\ pending'[s][1].type =
                           IF stack'[s][j].phase = "try"
                             THEN ForwardOf(cls, f.msg.type) ELSE ERROR
                 /\ (f.phase # "start" /\ j \in DOMAIN stack'[s]) =>
                      stack'[s][j] = f
       /\ (stack[s] # <<>> /\ pending'[s] # <<>> /\ pending'[s] # pending[s]) =>
            /\ Top(s).phase = "start"
            /\ pending[s] = <<>>]_vars

\* C22 witness: the Generation handler has sent its RETRIEVAL_REQUEST on and
\* awaits the Retrieval handler, which has failed and hands the bus its ERROR.
C22_Witness ==
  \E s \in Sessions :
    /\ Len(stack[s]) = 2
    /\ agents[stack[s][1].agent].cls = LLMResponseAgent
    /\ stack[s][1].msg.type = USER_QUERY
    /\ stack[s][1].phase = "try"
    /\ agents[stack[s][2].agent].cls = RetrievalAgent
    /\ stack[s][2].phase = "except"
    /\ pending[s] # <<>>
    /\ pending[s][1].type = ERROR


\* session s is about to run the Retrieval handler on a DOC_INGESTED envelope
AtIngest(s) ==
  /\ stack[s] # <<>>
  /\ agents[Top(s).agent].cls = RetrievalAgent
  /\ Top(s).msg.type = DOC_INGESTED
  /\ Top(s).phase = "start"

\* the trace ids of the uploads no stage has answered with an ERROR
CleanUploads ==
  {message_queue[i].trace_id : i \in
     {i \in DOMAIN message_queue :
        /\ message_queue[i].type = DOC_UPLOADED
        /\ message_queue[i].sender = UI
        /\ \A j \in DOMAIN message_queue :
             message_queue[j].type = ERROR =>
               message_queue[j].trace_id # message_queue[i].trace_id}}

\* C23. Ingestion is fire-and-forget: when the Retrieval handler handles a
\* DOC_INGESTED envelope without failing, the chunks of the envelope are
\* added to its index, in order and after what the index held, and it hands
\* the bus no envelope; and for the trace id of an upload that no stage
\* answered with an ERROR, get_response and get_error of every UIAgent
\* return None, at every later moment.
C23_IngestionFireAndForget ==
  /\ [][\A s \in Sessions :
          (AtIngest(s) /\ stack'[s] # stack[s] /\ Len(stack'[s]) < Len(stack[s])) =>
            LET a == Top(s).agent
                chunks == Top(s).msg.payload.chunks
            IN /\ agents'[a].docs = agents[a].docs \o chunks
               /\ pending'[s] = <<>>
               /\ message_queue' = message_queue]_vars
  /\ [](\A tid \in CleanUploads : \A i \in UIAgents :
          /\ get_response(agents[i], tid).value = <<>>
          /\ get_error(agents[i], tid).value = <<>>)

\* C23 witness: upload_document has returned, no stage has answered it with
\* an ERROR, and the chunks of its DOC_INGESTED envelope are in the index.
C23_Witness ==
  \E s \in Sessions :
    /\ action[s].op = "upload"
    /\ action[s].status = "returned"
    /\ action[s].trace_id \in CleanUploads
    /\ agents[retrieval_agent[s]].docs # <<>>
    /\ \E i \in DOMAIN message_queue :
         /\ message_queue[i].type = DOC_INGESTED
         /\ message_queue[i].trace_id = action[s].trace_id
         /\ message_queue[i].payload.chunks # <<>>


\* the envelopes recorded for a trace id, in the order of the record
HasTrace(m, tid) == m.trace_id = tid
ChainOf(tid) == SelectSeq(message_queue, LAMBDA m : HasTrace(m, tid))

\* the route of a question: sender, receiver and kind of each envelope
QueryRoute ==
  << <<UI, LLMResponseAgent, USER_QUERY>>,
     <<LLMResponseAgent, RetrievalAgent, RETRIEVAL_REQUEST>>,
     <<RetrievalAgent, LLMResponseAgent, RETRIEVAL_RESULT>>,
     <<LLMResponseAgent, UI, FINAL_RESPONSE>> >>

\* a question of session s that no stage has answered with an ERROR
Unfailed(s) ==
  /\ action[s].op = "ask"
  /\ \A i \in DOMAIN message_queue :
       message_queue[i].trace_id = action[s].trace_id => message_queue[i].type # ERROR

\* C24. Query chain order: while no stage has failed, the envelopes recorded
\* for the trace id of an ask_question are the first ones of USER_QUERY
\* (UI to LLMResponseAgent), RETRIEVAL_REQUEST (LLMResponseAgent to
\* RetrievalAgent, n_results = 5), RETRIEVAL_RESULT (RetrievalAgent to
\* LLMResponseAgent), FINAL_RESPONSE (LLMResponseAgent to UI), in this order
\* and each kind once; when ask_question has returned they are all four; and
\* the query of each is the text ask_question was given.
C24_QueryChainOrder ==
  \A s \in Sessions :
    Unfailed(s) =>
      LET chain == ChainOf(action[s].trace_id)
          q == action[s].first.payload.query
      IN /\ Len(chain) <= 4
         /\ \A k \in DOMAIN chain :
              /\ <<chain[k].sender, chain[k].receiver, chain[k].type>> = QueryRoute[k]
              /\ chain[k].payload.query = q
         /\ Len(chain) >= 2 => chain[2].payload = [query |-> q, n_results |-> 5]
         /\ action[s].status = "returned" => Len(chain) = 4
         /\ action[s].status = "running" /\ pending[s] = <<>> => Len(chain) >= 1

\* C24 witness: an ask_question has returned and its FINAL_RESPONSE is the
\* fourth envelope recorded for its trace id.
C24_Witness ==
  \E s \in Sessions :
    /\ Unfailed(s)
    /\ action[s].status = "returned"
    /\ Len(ChainOf(action[s].trace_id)) = 4
    /\ ChainOf(action[s].trace_id)[4].type = FINAL_RESPONSE
    /\ Len(message_queue) > 4


\* C25. Fallback content: when the fallback answers a RETRIEVAL_RESULT with
\* n > 0 context items, the answer quotes min(3, n) passages, the i-th from
\* the i-th item and none from a later item; a text of more than 200
\* characters is quoted as its first 200 characters followed by '...', a text
\* of 200 characters or fewer whole and without the ellipsis.
C25_FallbackContent ==
  \A s \in Sessions :
    (/\ InFinal(s)
     /\ pending[s][1].payload.answer.kind # "gemini"
     /\ Top(s).msg.payload.retrieved_context # <<>>) =>
      LET context == Top(s).msg.payload.retrieved_context
          answer == pending[s][1].payload.answer
      IN /\ answer.kind = "passages"
         /\ Len(answer.snippets) = Min(3, Len(context))
         /\ \A i \in DOMAIN answer.snippets :
              LET text == context[i].text
                  snip == answer.snippets[i]
              IN /\ snip.id = text.id
                 /\ snip.source = context[i].source
                 /\ text.len > 200 => snip.len = 200 /\ snip.ellipsis
                 /\ text.len <= 200 => snip.len = text.len /\ ~snip.ellipsis

\* C25 witness: the fallback has quoted a text of exactly 200 characters
\* whole and cut one of 201 characters.
C25_Witness ==
  \E s \in Sessions :
    /\ InFinal(s)
    /\ pending[s][1].payload.answer.kind = "passages"
    /\ Len(pending[s][1].payload.answer.snippets) = 2
    /\ Top(s).msg.payload.retrieved_context[1].text.len = 200
    /\ ~pending[s][1].payload.answer.snippets[1].ellipsis
    /\ Top(s).msg.payload.retrieved_context[2].text.len = 201
    /\ pending[s][1].payload.answer.snippets[2].ellipsis

\* C25 second case: the fallback has quoted three of four context items.
C25_TopThree ==
  \E s \in Sessions :
    /\ InFinal(s)
    /\ Len(Top(s).msg.payload.retrieved_context) = 4
    /\ pending[s][1].payload.answer.kind = "passages"
    /\ Len(pending[s][1].payload.answer.snippets) = 3


\* session s is inside a handler that has just called self.send_message with
\* trace_id = message.trace_id, a string
SentOn(s) ==
  /\ stack[s] # <<>>
  /\ Top(s).phase \in {"try", "except"}
  /\ pending[s] # <<>>
  /\ Top(s).msg.trace_id # NoneTrace

\* C26. Supplied trace id is kept: the envelope create_message returns to a
\* handler that supplied a trace id, whatever string it is, carries that
\* trace id; a fresh one is minted only when none is supplied.
C26_SuppliedTraceIdKept ==
  \A s \in Sessions :
    SentOn(s) => pending[s][1].trace_id = Top(s).msg.trace_id


\* the envelopes of the chain session s is in: the ones its handler
\* invocations work on, outermost first, then the one just handed to the bus
ChainIn(s) == [j \in DOMAIN stack[s] |-> stack[s][j].msg] \o pending[s]

\* C27. Bounded chain, no retries: the dispatch chain an envelope starts,
\* whatever its kind, sender, receiver, payload, and whichever stages fail,
\* comes to its end; it never holds more than 4 envelopes, and no two of
\* them have the same sender and the same kind.
C27_BoundedChain ==
  /\ [](\A s \in Sessions :
          /\ Len(ChainIn(s)) <= 4
          /\ \A j, k \in DOMAIN ChainIn(s) :
               (/\ ChainIn(s)[j].sender = ChainIn(s)[k].sender
                /\ ChainIn(s)[j].type = ChainIn(s)[k].type) => j = k)
  /\ \A s \in Sessions : Busy(s) ~> ~Busy(s)

\* C27 witness: a chain of four envelopes that a USER_QUERY sent under the
\* name of another stage than the UI has started.
C27_Witness ==
  \E s \in Sessions :
    /\ Len(ChainIn(s)) = 4
    /\ ChainIn(s)[1].type = USER_QUERY
    /\ ChainIn(s)[1].sender # UI
    /\ ChainIn(s)[4].type = FINAL_RESPONSE


\* C28. Outcome returns to its originator: when upload_document or
\* ask_question has returned, every FINAL_RESPONSE or ERROR envelope sent to
\* "UI" under its trace id is stored in responses or errors of the UIAgent
\* instance that started the action (the one "UI" named when the action
\* emitted its first envelope), whichever other UIAgent instances were
\* constructed while the action was under way.
C28_OutcomeReturnsToOriginator ==
  \A s \in Sessions :
    (/\ action[s].op \in {"upload", "ask"}
     /\ action[s].status = "returned"
     /\ action[s].bound = action[s].ui) =>
      LET tid == action[s].trace_id
          ui == agents[action[s].ui]
      IN /\ \A i \in Terminal(tid, FINAL_RESPONSE) :
              /\ tid \in DOMAIN ui.responses
              /\ ui.responses[tid] = message_queue[i].payload
         /\ \A i \in Terminal(tid, ERROR) :
              /\ tid \in DOMAIN ui.errors
              /\ ui.errors[tid] = message_queue[i].payload

====
